---- MODULE Spec2Model ----
(***************************************************************************)
(* Hierarchical countdown timers (tree-timers).                            *)
(*                                                                         *)
(* Every Timer component keeps its fields in React state mirrored to       *)
(* localStorage (useUUIDStore).  A user event or a clock tick runs one     *)
(* handler; React then re-renders every component whose state was set,     *)
(* together with all of its descendants, parents before children and       *)
(* siblings in childrenIDs order.  The body of Timer applies two           *)
(* corrections while it renders (completion, sibling exclusion); the       *)
(* callbacks triggerStart / triggerStop passed to a child are closures     *)
(* over the values the parent saw in its latest render.  A state update    *)
(* made to an ancestor while a child renders is rendered in a following    *)
(* pass.  All durations and instants are integers in milliseconds.         *)
(* The Timers of a node's children are mounted while the node is expanded; *)
(* the user opens the list of every timer when it appears, and only the    *)
(* specification with the expand button closes and reopens lists.          *)
(***************************************************************************)
EXTENDS Integers, Sequences, FiniteSets, TLC

\* ---- bounds of the model ----
MaxNodes == 3
MaxTicks == 2
\* the clock ticks followed in the runs that create MaxNodes timers
TreeTicks == 1

\* ---- program values ----
undefined == -1
NONE == 0
Threshold == 10
NoParent == 0

Ids == 1..MaxNodes
\* interval between two clock ticks (setInterval of 1000 ms)
TickDeltas == {1000}
\* what the user types in the seconds field of the duration input
Requests == {-1, 1, 3}

\* the suffixes of the localStorage keys "<uuid>-<stateName>" of one timer
KeyNames == {"name", "totalTime", "parentID", "childrenIDs",
             "started", "elapsed", "finished", "childRunning"}

VARIABLES
    timerIDs,      \* root registry ("root-timers")
    childrenIDs,   \* id -> sequence of child ids
    totalTime,     \* id -> budget in ms (0 when the key is absent)
    started,       \* id -> instant, or undefined
    elapsed,       \* id -> ms
    finished,      \* id -> BOOLEAN
    childRunning,  \* id -> undefined, NONE or a child id
    store,         \* id -> the KeyNames whose key "<id>-<name>" is in localStorage
    currentTime,   \* TimerPage's currentTime
    snap,          \* the values each component saw in its latest render
    queue,         \* components still to render in the running pass
    dirty,         \* components with a state update not yet rendered
    nextId,        \* next fresh uuid
    ticks,         \* number of clock ticks so far
    lastOp,        \* the latest user action (with its details for Start and Create)
    userStarted,   \* nodes whose current run-segment began with a direct Start
    segments,      \* id -> total length of the run-segments closed since the last reset
    notifications, \* TimerPage's `notifications` prop (the user's setting)
    notified,      \* the Notifications the latest step has shown
    cell,          \* one localStorage entry and the useLocalStorage state bound to it
    expanded       \* id -> whether the list of the timer's children is open

vars == <<timerIDs, childrenIDs, totalTime, started, elapsed, finished,
          childRunning, store, currentTime, snap, queue, dirty, nextId, ticks,
          lastOp, userStarted, segments, notifications, notified, cell, expanded>>

Range(s) == {s[i] : i \in DOMAIN s}

RECURSIVE SeqSum(_, _)
SeqSum(f, s) == IF s = <<>> THEN 0 ELSE f[Head(s)] + SeqSum(f, Tail(s))

\* faulty variant: the first entry is dropped instead of the entry that matches
SeqFilterOut_first(s, x) == Tail(s)

SeqFilterOut(s, x) == SelectSeq(s, LAMBDA y : y # x)

\* ---- the tree, discovered by walking childrenIDs from the root registry ----
RECURSIVE PreorderSeq(_)
PreorderSeq(ids) ==
    IF ids = <<>> THEN <<>>
    ELSE <<Head(ids)>> \o PreorderSeq(childrenIDs[Head(ids)]) \o PreorderSeq(Tail(ids))

Live == Range(PreorderSeq(timerIDs))

Parent(n) ==
    IF \E p \in Ids : n \in Range(childrenIDs[p])
    THEN CHOOSE p \in Ids : n \in Range(childrenIDs[p])
    ELSE NoParent

RECURSIVE Ancestors(_)
Ancestors(n) ==
    IF Parent(n) = NoParent THEN {} ELSE {Parent(n)} \cup Ancestors(Parent(n))

\* the Timer of n is mounted: every list above it is open (unmountOnExit)
Mounted(n) == \A a \in Ancestors(n) : expanded[a]

\* ---- derived quantities of Timer ----
getTimerDuration(id) == IF "totalTime" \in store[id] THEN totalTime[id] ELSE 0

\* faulty variant: the children are charged with the time they have left
childrenTime_remaining(n) ==
    SeqSum([c \in Ids |-> totalTime[c] - elapsed[c]], childrenIDs[n])

childrenTime(n) == SeqSum([c \in Ids |-> getTimerDuration(c)], childrenIDs[n])

unallocatedTime(n) == totalTime[n] - childrenTime(n)

\* faulty variant: the start control is offered whatever is left of the budget
startable_always(n) == TRUE

startable(n) == totalTime[n] - childrenTime(n) > 0

currentSegment(n) == IF started[n] # undefined THEN currentTime - started[n] ELSE 0

timeRemaining(n) == totalTime[n] - (currentSegment(n) + elapsed[n])

\* ---- state setters: write the value and schedule a render of the component ----
Bundle == [started |-> started, elapsed |-> elapsed, finished |-> finished,
           childRunning |-> childRunning, store |-> store, dirty |-> dirty,
           notified |-> <<>>]

setStarted(S, n, v) ==
    [S EXCEPT !.started[n] = v, !.store[n] = @ \cup {"started"}, !.dirty = @ \cup {n}]

setElapsed(S, n, v) ==
    [S EXCEPT !.elapsed[n] = v, !.store[n] = @ \cup {"elapsed"}, !.dirty = @ \cup {n}]

setFinished(S, n, v) ==
    [S EXCEPT !.finished[n] = v, !.store[n] = @ \cup {"finished"}, !.dirty = @ \cup {n}]

setChildRunning(S, n, v) ==
    [S EXCEPT !.childRunning[n] = v, !.store[n] = @ \cup {"childRunning"},
              !.dirty = @ \cup {n}]

\* the keys saveTimer writes for a new timer
SavedKeys == {"name", "totalTime", "parentID", "childrenIDs"}

\* the keys clearSelf removes
ClearedKeys == {"name", "totalTime", "childrenIDs", "childRunning", "started",
                "finished", "elapsed"}

\* ---- run control: closures over the latest render of each component ----
RECURSIVE startTimer(_, _)
RECURSIVE triggerStart(_, _)
RECURSIVE stopTimer(_, _)
RECURSIVE triggerStop(_, _)

\* faulty variant: the parent records its running child but does not start itself
triggerStart_noCascade(S, c) == setChildRunning(S, Parent(c), c)

\* the triggerStart callback that Parent(c) hands to its child c
triggerStart(S, c) ==
    LET p == Parent(c)
        S1 == setChildRunning(S, p, c)
    IN  IF snap.started[p] = undefined THEN startTimer(S1, p) ELSE S1

startTimer(S, n) ==
    LET S1 == setStarted(S, n, currentTime)
    IN  IF Parent(n) # NoParent THEN triggerStart(S1, n) ELSE S1

\* faulty variant: the parent forgets its running child but does not stop itself
triggerStop_noStop(S, c) == setChildRunning(S, Parent(c), undefined)

\* faulty variant: the parent is stopped whether or not it is running
triggerStop_always(S, c) ==
    stopTimer(setChildRunning(S, Parent(c), undefined), Parent(c))

\* the triggerStop callback that Parent(c) hands to its child c
triggerStop(S, c) ==
    LET p == Parent(c)
        S1 == setChildRunning(S, p, undefined)
    IN  IF snap.started[p] # undefined THEN stopTimer(S1, p) ELSE S1

\* faulty variant: a stopped node keeps the child it was tracking
stopTimer_keepsChild(S, n) ==
    LET from == IF snap.started[n] # undefined THEN snap.started[n] ELSE currentTime
        S1 == setElapsed(S, n, snap.elapsed[n] + (currentTime - from))
        S2 == setStarted(S1, n, undefined)
    IN  IF Parent(n) # NoParent THEN triggerStop(S2, n) ELSE S2

stopTimer(S, n) ==
    LET from == IF snap.started[n] # undefined THEN snap.started[n] ELSE currentTime
        S1 == setElapsed(S, n, snap.elapsed[n] + (currentTime - from))
        S2 == setStarted(S1, n, undefined)
        S3 == IF snap.childRunning[n] # undefined
              THEN setChildRunning(S2, n, NONE) ELSE S2
    IN  IF Parent(n) # NoParent THEN triggerStop(S3, n) ELSE S3

\* ---- the body of Timer: the corrections of one render of component n ----
\* faulty variant: a root is handed another root that is running
siblingRunning_amongRoots(n) ==
    IF Parent(n) = NoParent
    THEN IF \E r \in Range(timerIDs) \ {n} : started[r] # undefined
         THEN CHOOSE r \in Range(timerIDs) \ {n} : started[r] # undefined
         ELSE undefined
    ELSE snap.childRunning[Parent(n)]

siblingRunning(n) ==
    IF Parent(n) = NoParent THEN undefined ELSE snap.childRunning[Parent(n)]

\* faulty variant: the completion check waits until no time at all is left
completes_late(n) == timeRemaining(n) < 0 /\ started[n] # undefined

completes(n) == timeRemaining(n) < Threshold /\ started[n] # undefined

forceStopped(n) ==
    /\ siblingRunning(n) # undefined
    /\ siblingRunning(n) # n
    /\ started[n] # undefined

\* new Notification(title, { body }); the body n stands for the name of timer n
Notification(S, title, n) ==
    [S EXCEPT !.notified = Append(@, [title |-> title, body |-> n])]

\* faulty variant: the notification does not depend on the user's setting
notifyWhenFinished_always(n) == TRUE

\* the prop of that name: `notifications` for a root, the parent's own prop
\* for a child
RECURSIVE notifyWhenFinished(_)
notifyWhenFinished(n) ==
    IF Parent(n) = NoParent THEN notifications
    ELSE notifyWhenFinished(Parent(n)) \/ FALSE

completionCheck(S, n) ==
    IF completes(n)
    THEN LET S0 == IF notifyWhenFinished(n)
                   THEN Notification(S, "Timer finished", n) ELSE S
             S1 == setFinished(setStarted(S0, n, undefined), n, TRUE)
         IN  IF Parent(n) # NoParent THEN triggerStop(S1, n) ELSE S1
    ELSE S

\* faulty variant: the force-stopped sibling loses its running segment
siblingCheck_noAccrual(S, n) ==
    IF forceStopped(n) THEN setStarted(S, n, undefined) ELSE S

\* faulty variant: the sibling-exclusion check is left out
siblingCheck_never(S, n) == S

\* faulty variant: the force-stopped sibling tells its parent that it stopped
siblingCheck_cascade(S, n) ==
    IF forceStopped(n)
    THEN triggerStop(setStarted(setElapsed(S, n, elapsed[n] + (currentTime - started[n])),
                                n, undefined), n)
    ELSE S

siblingCheck(S, n) ==
    IF forceStopped(n)
    THEN setStarted(setElapsed(S, n, elapsed[n] + (currentTime - started[n])),
                    n, undefined)
    ELSE S

renderTimer(S, n) == siblingCheck(completionCheck(S, n), n)

\* ---- one pass as a function: the same render, reading a given state ----
\* W is the state a render finds (with W.snap the closures of the renders
\* before it), S the state with the updates made so far
World == [started |-> started, elapsed |-> elapsed, finished |-> finished,
          childRunning |-> childRunning, store |-> store, dirty |-> dirty,
          notified |-> <<>>, snap |-> snap]

RECURSIVE stopTimerIn(_, _, _)
RECURSIVE triggerStopIn(_, _, _)

triggerStopIn(S, W, c) ==
    LET p == Parent(c)
        S1 == setChildRunning(S, p, undefined)
    IN  IF W.snap.started[p] # undefined THEN stopTimerIn(S1, W, p) ELSE S1

stopTimerIn(S, W, n) ==
    LET from == IF W.snap.started[n] # undefined THEN W.snap.started[n]
                ELSE currentTime
        S1 == setElapsed(S, n, W.snap.elapsed[n] + (currentTime - from))
        S2 == setStarted(S1, n, undefined)
        S3 == IF W.snap.childRunning[n] # undefined
              THEN setChildRunning(S2, n, NONE) ELSE S2
    IN  IF Parent(n) # NoParent THEN triggerStopIn(S3, W, n) ELSE S3

completesIn(W, n) ==
    /\ W.started[n] # undefined
    /\ totalTime[n] - ((currentTime - W.started[n]) + W.elapsed[n]) < Threshold

\* faulty variant: a node gives way to any sibling that is running right now
forceStoppedIn_live(W, n) ==
    /\ Parent(n) # NoParent
    /\ W.started[n] # undefined
    /\ \E m \in Range(childrenIDs[Parent(n)]) \ {n} : W.started[m] # undefined

forceStoppedIn(W, n) ==
    /\ Parent(n) # NoParent
    /\ W.snap.childRunning[Parent(n)] # undefined
    /\ W.snap.childRunning[Parent(n)] # n
    /\ W.started[n] # undefined

completionCheckIn(S, W, n) ==
    IF completesIn(W, n)
    THEN LET S0 == IF notifyWhenFinished(n)
                   THEN Notification(S, "Timer finished", n) ELSE S
             S1 == setFinished(setStarted(S0, n, undefined), n, TRUE)
         IN  IF Parent(n) # NoParent THEN triggerStopIn(S1, W, n) ELSE S1
    ELSE S

\* faulty variant: the force-stopped sibling accrues its segment but keeps
\* `started`
siblingCheckIn_keepsStarted(S, W, n) ==
    IF forceStoppedIn(W, n)
    THEN setElapsed(S, n, W.elapsed[n] + (currentTime - W.started[n]))
    ELSE S

siblingCheckIn(S, W, n) ==
    IF forceStoppedIn(W, n)
    THEN setStarted(setElapsed(S, n, W.elapsed[n] + (currentTime - W.started[n])),
                    n, undefined)
    ELSE S

\* the state after the render of n, with the closures of n renewed
renderTimerIn(W, n) ==
    LET S == siblingCheckIn(completionCheckIn(W, W, n), W, n)
    IN  [S EXCEPT !.dirty = @ \ {n},
                  !.snap = [started |-> [W.snap.started EXCEPT ![n] = S.started[n]],
                            elapsed |-> [W.snap.elapsed EXCEPT ![n] = S.elapsed[n]],
                            childRunning |-> [W.snap.childRunning EXCEPT
                                                 ![n] = S.childRunning[n]]]]

\* the renders of the components of q, one after the other
RECURSIVE RunPass(_, _)
RunPass(W, q) == IF q = <<>> THEN W ELSE RunPass(renderTimerIn(W, Head(q)), Tail(q))

\* ---- the duration input of the creation dialog ----
\* faulty variant: the input is not capped by maxDuration
DurationInput_uncapped(seconds, maxDuration) ==
    IF seconds < 0 THEN 0 ELSE seconds * 1000

\* faulty variant: a negative number of seconds is not set back to zero
DurationInput_noFloor(seconds, maxDuration) ==
    LET currentDuration == seconds * 1000
    IN  IF maxDuration # undefined /\ maxDuration - currentDuration < 0
        THEN maxDuration
        ELSE currentDuration

DurationInput(seconds, maxDuration) ==
    LET secs == IF seconds < 0 THEN 0 ELSE seconds
        currentDuration == secs * 1000
    IN  IF maxDuration # undefined /\ maxDuration - currentDuration < 0
        THEN maxDuration
        ELSE currentDuration

\* ======================= the store codecs =======================
\* A text is a sequence of one-character strings.  An instant is a number of
\* milliseconds since the start of the model's clock; a Duration is given by
\* the units Luxon holds it in.

Quote == "\""
Backslash == "\\"
DigitChars == <<"0", "1", "2", "3", "4", "5", "6", "7", "8", "9">>
IsDigit(ch) == \E i \in 1..10 : DigitChars[i] = ch
DigitOf(ch) == (CHOOSE i \in 1..10 : DigitChars[i] = ch) - 1

\* ---- JavaScript values that are not numbers: [kind, val] ----
JSUndefined == [kind |-> "undefined", val |-> <<>>]
JSBoolean(b) == [kind |-> IF b THEN "true" ELSE "false", val |-> <<>>]
JSString(chars) == [kind |-> "string", val |-> chars]
JSArray(strings) == [kind |-> "array", val |-> strings]
JSNumber(digits) == [kind |-> "number", val |-> digits]
JSNull == [kind |-> "null", val |-> <<>>]
SyntaxError == [kind |-> "SyntaxError", val |-> <<>>]

\* ---- Number.prototype.toString and parseInt(text, 10) ----
RECURSIVE toStringNat(_)
toStringNat(k) ==
    IF k < 10 THEN <<DigitChars[k + 1]>>
    ELSE toStringNat(k \div 10) \o <<DigitChars[(k % 10) + 1]>>

toString(k) == IF k < 0 THEN <<"-">> \o toStringNat(-k) ELSE toStringNat(k)

RECURSIVE digitPrefix(_)
digitPrefix(text) ==
    IF text # <<>> /\ IsDigit(Head(text))
    THEN <<Head(text)>> \o digitPrefix(Tail(text))
    ELSE <<>>

RECURSIVE digitsValue(_)
digitsValue(digits) ==
    IF digits = <<>> THEN 0
    ELSE 10 * digitsValue(SubSeq(digits, 1, Len(digits) - 1))
         + DigitOf(digits[Len(digits)])

\* parseInt reads an optional sign and the longest run of digits that follows;
\* without a digit the result is NaN
parseInt(text) ==
    LET neg == text # <<>> /\ Head(text) = "-"
        body == IF text # <<>> /\ Head(text) \in {"-", "+"} THEN Tail(text) ELSE text
        digits == digitPrefix(body)
    IN  IF digits = <<>> THEN [nan |-> TRUE, n |-> 0]
        ELSE [nan |-> FALSE, n |-> IF neg THEN -digitsValue(digits)
                                   ELSE digitsValue(digits)]

\* ---- Luxon ----
InvalidValue == -2

\* Duration.fromMillis(ms).shiftTo("hours", "minutes", "seconds"); the seconds
\* carry the milliseconds as their fraction and are counted here in 1/1000
shiftToHMS(ms) ==
    [valid |-> TRUE, hours |-> ms \div 3600000,
     minutes |-> (ms % 3600000) \div 60000, seconds |-> ms % 60000]

InvalidDuration == [valid |-> FALSE, hours |-> 0, minutes |-> 0, seconds |-> 0]

\* duration.shiftTo("milliseconds").milliseconds
toMillis(D) ==
    IF D.valid THEN D.hours * 3600000 + D.minutes * 60000 + D.seconds
    ELSE InvalidValue

\* faulty variant: the text carries whole seconds only
toISO_seconds(t) == <<"T">> \o toStringNat(t \div 1000) \o <<".", "0", "0", "0">>

\* DateTime.toISO keeps the instant to the millisecond: seconds, a point and
\* three digits of milliseconds after the "T" (the date is not modelled)
toISO(t) ==
    LET ms == t % 1000
    IN  <<"T">> \o toStringNat(t \div 1000) \o <<".">>
        \o <<DigitChars[(ms \div 100) + 1], DigitChars[((ms \div 10) % 10) + 1],
             DigitChars[(ms % 10) + 1]>>

\* DateTime.fromISO: an invalid DateTime when the text is not in ISO format
fromISO(text) ==
    LET body == IF text # <<>> THEN Tail(text) ELSE <<>>
        secs == digitPrefix(body)
        rest == SubSeq(body, Len(secs) + 1, Len(body))
    IN  IF /\ text # <<>>
           /\ Head(text) = "T"
           /\ secs # <<>>
           /\ Len(rest) = 4
           /\ rest[1] = "."
           /\ \A i \in 2..4 : IsDigit(rest[i])
        THEN digitsValue(secs) * 1000 + digitsValue(SubSeq(rest, 2, 4))
        ELSE InvalidValue

\* ---- JSON ----
RECURSIVE jsonEscape(_)
jsonEscape(chars) ==
    IF chars = <<>> THEN <<>>
    ELSE (IF Head(chars) \in {Quote, Backslash} THEN <<Backslash, Head(chars)>>
          ELSE <<Head(chars)>>) \o jsonEscape(Tail(chars))

RECURSIVE jsonElements(_)
jsonElements(strings) ==
    IF strings = <<>> THEN <<>>
    ELSE <<Quote>> \o jsonEscape(Head(strings)) \o <<Quote>>
         \o (IF Tail(strings) = <<>> THEN <<>> ELSE <<",">>)
         \o jsonElements(Tail(strings))

\* JSON.stringify; for undefined it returns undefined, which setItem stores
\* as the nine letters of String(undefined)
JSON_stringify(v) ==
    CASE v.kind = "string" -> <<Quote>> \o jsonEscape(v.val) \o <<Quote>>
      [] v.kind = "array" -> <<"[">> \o jsonElements(v.val) \o <<"]">>
      [] v.kind = "number" -> v.val
      [] v.kind = "true" -> <<"t", "r", "u", "e">>
      [] v.kind = "false" -> <<"f", "a", "l", "s", "e">>
      [] v.kind = "null" -> <<"n", "u", "l", "l">>
      [] v.kind = "undefined" -> <<"u", "n", "d", "e", "f", "i", "n", "e", "d">>

\* the characters of a string literal up to its closing quote, unescaped;
\* rest is what follows the closing quote
RECURSIVE jsonStringBody(_)
jsonStringBody(text) ==
    IF text = <<>> THEN [ok |-> FALSE, chars |-> <<>>, rest |-> <<>>]
    ELSE IF Head(text) = Quote THEN [ok |-> TRUE, chars |-> <<>>, rest |-> Tail(text)]
    ELSE IF Head(text) = Backslash
    THEN IF Len(text) >= 2 /\ text[2] \in {Quote, Backslash}
         THEN LET r == jsonStringBody(Tail(Tail(text)))
              IN  [r EXCEPT !.chars = <<text[2]>> \o @]
         ELSE [ok |-> FALSE, chars |-> <<>>, rest |-> <<>>]
    ELSE LET r == jsonStringBody(Tail(text))
         IN  [r EXCEPT !.chars = <<Head(text)>> \o @]

\* the string literals of an array after its opening bracket
RECURSIVE jsonArrayItems(_)
jsonArrayItems(text) ==
    IF text = <<>> \/ Head(text) # Quote
    THEN [ok |-> FALSE, items |-> <<>>]
    ELSE LET s == jsonStringBody(Tail(text))
         IN  IF ~s.ok THEN [ok |-> FALSE, items |-> <<>>]
             ELSE IF s.rest = <<"]">> THEN [ok |-> TRUE, items |-> <<s.chars>>]
             ELSE IF s.rest # <<>> /\ Head(s.rest) = ","
             THEN LET r == jsonArrayItems(Tail(s.rest))
                  IN  [r EXCEPT !.items = <<s.chars>> \o @]
             ELSE [ok |-> FALSE, items |-> <<>>]

\* JSON.parse for the values the timers store: literals, numbers, strings and
\* arrays of strings; any other text is a SyntaxError
JSON_parse(text) ==
    IF text = <<"t", "r", "u", "e">> THEN JSBoolean(TRUE)
    ELSE IF text = <<"f", "a", "l", "s", "e">> THEN JSBoolean(FALSE)
    ELSE IF text = <<"n", "u", "l", "l">> THEN JSNull
    ELSE IF text = <<"[", "]">> THEN JSArray(<<>>)
    ELSE IF text # <<>> /\ digitPrefix(text) = text THEN JSNumber(text)
    ELSE IF text # <<>> /\ Head(text) = Quote
    THEN LET s == jsonStringBody(Tail(text))
         IN  IF s.ok /\ s.rest = <<>> THEN JSString(s.chars) ELSE SyntaxError
    ELSE IF text # <<>> /\ Head(text) = "["
    THEN LET a == jsonArrayItems(Tail(text))
         IN  IF a.ok THEN JSArray(a.items) ELSE SyntaxError
    ELSE SyntaxError

\* ---- the three serializers of localStorageTools ----
defaultSerializer_stringify(v) ==
    IF v.kind = "string" THEN <<Quote>> \o v.val \o <<Quote>> ELSE JSON_stringify(v)

defaultSerializer_parse(text) == JSON_parse(text)

QuotedUndefined == <<Quote, "u", "n", "d", "e", "f", "i", "n", "e", "d", Quote>>

datetimeMaybeSerializer_stringify(t) ==
    IF t = undefined THEN QuotedUndefined ELSE toISO(t)

datetimeMaybeSerializer_parse(text) ==
    IF text = QuotedUndefined THEN undefined ELSE fromISO(text)

durationSerializer_stringify(ms) == toString(ms)

\* Duration.fromMillis(NaN) raises an InvalidArgumentError: there is no Duration
durationSerializer_parse(text) ==
    LET k == parseInt(text)
    IN  IF k.nan THEN InvalidDuration ELSE shiftToHMS(k.n)

\* ---- useLocalStorage over one key "<uuid>-<field>" ----
Fields == {"name", "totalTime", "childrenIDs", "started", "elapsed", "finished",
           "childRunning"}
DurationFields == {"totalTime", "elapsed"}
DateTimeFields == {"started"}
NumFields == DurationFields \cup DateTimeFields

NoneChars == <<"_", "_", "N", "O", "N", "E", "_", "_">>
uuid(k) == toStringNat(k)

\* the defaults the Timer passes to useUUIDStore
DefaultNum(f) == IF f \in DateTimeFields THEN undefined ELSE 0
DefaultJs(f) ==
    CASE f = "name" -> JSString(<<"u", "n", "n", "a", "m", "e", "d">>)
      [] f = "childrenIDs" -> JSArray(<<>>)
      [] f = "finished" -> JSBoolean(FALSE)
      [] f = "childRunning" -> JSUndefined
      [] OTHER -> JSNull

stringifyField(f, num, js) ==
    IF f \in DurationFields THEN durationSerializer_stringify(num)
    ELSE IF f \in DateTimeFields THEN datetimeMaybeSerializer_stringify(num)
    ELSE defaultSerializer_stringify(js)

parseNum(f, text) ==
    IF f \in DurationFields THEN toMillis(durationSerializer_parse(text))
    ELSE IF f \in DateTimeFields THEN datetimeMaybeSerializer_parse(text)
    ELSE 0

parseJs(f, text) == IF f \in NumFields THEN JSNull ELSE defaultSerializer_parse(text)

\* faulty variant: the stored text is parsed even when the key is absent
useLocalStorageNum_noDefault(f, present, text) == parseNum(f, text)

\* the initial state of useLocalStorage: the parsed entry, or the default
useLocalStorageNum(f, present, text) ==
    IF present THEN parseNum(f, text) ELSE DefaultNum(f)

useLocalStorageJs(f, present, text) ==
    IF present THEN parseJs(f, text) ELSE DefaultJs(f)

\* timerUtils.getTimerDuration on the text level: getItem(...) || "0"
getTimerDurationOf(present, text) ==
    toMillis(durationSerializer_parse(IF present /\ text # <<>> THEN text
                                      ELSE <<"0">>))

\* no entry has been touched yet
NoCell == [field |-> "none"]

\* ---- ghost bookkeeping ----
NoOp == [op |-> "none", id |-> 0, at |-> 0, req |-> 0, idle |-> FALSE,
         before |-> <<>>, run |-> <<>>, fin |-> <<>>, owner |-> 0]

RECURSIVE RootOf(_)
RootOf(n) == IF Parent(n) = NoParent THEN n ELSE RootOf(Parent(n))

TreeOf(n) == {m \in Live : RootOf(m) = RootOf(n)}

IsIdle(n) == started[n] = undefined /\ ~finished[n]

stillStarted(U, st) == {m \in U : st[m] # undefined}

\* the run-segments a step closes: `started` was set and st, its new value, is unset
closeSegments(st) ==
    [m \in Ids |-> IF started[m] # undefined /\ st[m] = undefined
                   THEN segments[m] + (currentTime - started[m])
                   ELSE segments[m]]

Idle == queue = <<>> /\ dirty = {}

Apply(S) ==
    /\ started' = S.started
    /\ elapsed' = S.elapsed
    /\ finished' = S.finished
    /\ childRunning' = S.childRunning
    /\ store' = S.store
    /\ dirty' = S.dirty
    /\ notified' = S.notified

Init ==
    /\ timerIDs = <<>>
    /\ childrenIDs = [n \in Ids |-> <<>>]
    /\ totalTime = [n \in Ids |-> 0]
    /\ started = [n \in Ids |-> undefined]
    /\ elapsed = [n \in Ids |-> 0]
    /\ finished = [n \in Ids |-> FALSE]
    /\ childRunning = [n \in Ids |-> undefined]
    /\ currentTime = 0
    /\ snap = [started |-> [n \in Ids |-> undefined],
               elapsed |-> [n \in Ids |-> 0],
               childRunning |-> [n \in Ids |-> undefined]]
    /\ queue = <<>>
    /\ dirty = {}
    /\ nextId = 1
    /\ ticks = 0
    /\ lastOp = NoOp
    /\ userStarted = {}
    /\ store = [n \in Ids |-> {}]
    /\ segments = [n \in Ids |-> 0]
    /\ notifications = FALSE
    /\ notified = <<>>
    /\ cell = NoCell
    /\ expanded = [n \in Ids |-> TRUE]

\* ---- user actions (handlers run only when React has nothing left to render) ----

\* TimerPage.addTimer through AddTimerDialog, which has no maxDuration there
CreateRoot(req) ==
    /\ Idle
    /\ nextId <= MaxNodes
    /\ timerIDs' = Append(timerIDs, nextId)
    /\ totalTime' = [totalTime EXCEPT ![nextId] = DurationInput(req, undefined)]
    /\ nextId' = nextId + 1
    /\ store' = [store EXCEPT ![nextId] = SavedKeys]
    /\ dirty' = Range(timerIDs')
    /\ lastOp' = [NoOp EXCEPT !.op = "Create", !.id = nextId, !.req = req]
    /\ notified' = <<>>
    /\ UNCHANGED <<childrenIDs, started, elapsed, finished, childRunning,
                   currentTime, snap, queue, ticks, userStarted, segments, notifications, cell, expanded>>

\* faulty variant: the new child is put at the front of the list
CreateChild_prepends(p, req) ==
    /\ Idle
    /\ p \in Live
    /\ nextId <= MaxNodes
    /\ unallocatedTime(p) > 0
    /\ totalTime' = [totalTime EXCEPT ![nextId] = DurationInput(req, unallocatedTime(p))]
    /\ childrenIDs' = [childrenIDs EXCEPT ![p] = <<nextId>> \o @]
    /\ nextId' = nextId + 1
    /\ store' = [store EXCEPT ![nextId] = SavedKeys, ![p] = @ \cup {"childrenIDs"}]
    /\ dirty' = dirty \cup {p}
    /\ lastOp' = [NoOp EXCEPT !.op = "Create", !.id = nextId, !.req = req]
    /\ notified' = <<>>
    /\ UNCHANGED <<timerIDs, started, elapsed, finished, childRunning,
                   currentTime, snap, queue, ticks, userStarted, segments, notifications, cell, expanded>>

\* Timer.addTimer through AddTimerDialog with maxDuration = unallocatedTime
CreateChild(p, req) ==
    /\ Idle
    /\ p \in Live
    /\ nextId <= MaxNodes
    /\ unallocatedTime(p) > 0
    /\ totalTime' = [totalTime EXCEPT ![nextId] = DurationInput(req, unallocatedTime(p))]
    /\ childrenIDs' = [childrenIDs EXCEPT ![p] = Append(@, nextId)]
    /\ nextId' = nextId + 1
    /\ store' = [store EXCEPT ![nextId] = SavedKeys, ![p] = @ \cup {"childrenIDs"}]
    /\ dirty' = dirty \cup {p}
    /\ lastOp' = [NoOp EXCEPT !.op = "Create", !.id = nextId, !.req = req]
    /\ notified' = <<>>
    /\ UNCHANGED <<timerIDs, started, elapsed, finished, childRunning,
                   currentTime, snap, queue, ticks, userStarted, segments, notifications, cell, expanded>>

\* TimerControl onClick while not running: onStart = startTimer
Start(n) ==
    /\ Idle
    /\ n \in Live
    /\ ~finished[n]
    /\ started[n] = undefined
    /\ startable(n)
    /\ Apply(startTimer(Bundle, n))
    /\ lastOp' = [op |-> "Start", id |-> n, at |-> currentTime, req |-> 0,
                  idle |-> \A m \in TreeOf(n) : IsIdle(m), before |-> elapsed,
                  run |-> started, fin |-> finished, owner |-> 0]
    /\ userStarted' = stillStarted(userStarted \cup {n}, started')
    /\ segments' = closeSegments(started')
    /\ UNCHANGED <<timerIDs, childrenIDs, totalTime, currentTime, snap, queue,
                   nextId, ticks, notifications, cell, expanded>>

\* TimerControl onClick while running: onStop = stopTimer
Stop(n) ==
    /\ Idle
    /\ n \in Live
    /\ ~finished[n]
    /\ started[n] # undefined
    /\ Apply(stopTimer(Bundle, n))
    /\ lastOp' = [NoOp EXCEPT !.op = "Stop", !.id = n]
    /\ userStarted' = stillStarted(userStarted, started')
    /\ segments' = closeSegments(started')
    /\ UNCHANGED <<timerIDs, childrenIDs, totalTime, currentTime, snap, queue,
                   nextId, ticks, notifications, cell, expanded>>

\* faulty variant: the reset button clears `finished` but keeps the elapsed time
Reset_keepsElapsed(n) ==
    /\ Idle
    /\ n \in Live
    /\ totalTime[n] - timeRemaining(n) >= 0
    /\ LET S1 == setFinished(Bundle, n, FALSE)
       IN  Apply(IF started[n] # undefined THEN setStarted(S1, n, currentTime) ELSE S1)
    /\ lastOp' = [NoOp EXCEPT !.op = "Reset", !.id = n]
    /\ segments' = [segments EXCEPT ![n] = 0]
    /\ UNCHANGED <<timerIDs, childrenIDs, totalTime, currentTime, snap, queue,
                   nextId, ticks, userStarted, notifications, cell, expanded>>

\* faulty variant: the reset gives the time of the node back to its parent
Reset_refundsParent(n) ==
    /\ Idle
    /\ n \in Live
    /\ totalTime[n] - timeRemaining(n) >= 0
    /\ LET S1 == setFinished(setElapsed(Bundle, n, 0), n, FALSE)
           S2 == IF started[n] # undefined THEN setStarted(S1, n, currentTime) ELSE S1
       IN  Apply(IF Parent(n) # NoParent
                 THEN setElapsed(S2, Parent(n), elapsed[Parent(n)] - elapsed[n])
                 ELSE S2)
    /\ lastOp' = [NoOp EXCEPT !.op = "Reset", !.id = n]
    /\ segments' = [segments EXCEPT ![n] = 0]
    /\ UNCHANGED <<timerIDs, childrenIDs, totalTime, currentTime, snap, queue,
                   nextId, ticks, userStarted, notifications, cell, expanded>>

\* the reset-time button
Reset(n) ==
    /\ Idle
    /\ n \in Live
    /\ totalTime[n] - timeRemaining(n) >= 0
    /\ LET S1 == setFinished(setElapsed(Bundle, n, 0), n, FALSE)
       IN  Apply(IF started[n] # undefined THEN setStarted(S1, n, currentTime) ELSE S1)
    /\ lastOp' = [NoOp EXCEPT !.op = "Reset", !.id = n]
    /\ segments' = [segments EXCEPT ![n] = 0]
    /\ UNCHANGED <<timerIDs, childrenIDs, totalTime, currentTime, snap, queue,
                   nextId, ticks, userStarted, notifications, cell, expanded>>

\* faulty variant: the delete button also removes the keys of every descendant
Delete_recursive(n) ==
    /\ Idle
    /\ n \in Live
    /\ totalTime' = [m \in Ids |-> IF m = n \/ n \in Ancestors(m) THEN 0
                                   ELSE totalTime[m]]
    /\ started' = [started EXCEPT ![n] = undefined]
    /\ elapsed' = [elapsed EXCEPT ![n] = 0]
    /\ finished' = [finished EXCEPT ![n] = FALSE]
    /\ childRunning' = [childRunning EXCEPT ![n] = undefined]
    /\ snap' = [started |-> [snap.started EXCEPT ![n] = undefined],
                elapsed |-> [snap.elapsed EXCEPT ![n] = 0],
                childRunning |-> [snap.childRunning EXCEPT ![n] = undefined]]
    /\ childrenIDs' = [m \in Ids |-> IF m = n THEN <<>>
                                     ELSE SeqFilterOut(childrenIDs[m], n)]
    /\ timerIDs' = SeqFilterOut(timerIDs, n)
    /\ store' = [m \in Ids |-> IF m = n \/ n \in Ancestors(m)
                               THEN store[m] \ ClearedKeys
                               ELSE IF m = Parent(n)
                                    THEN store[m] \cup {"childrenIDs"}
                                    ELSE store[m]]
    /\ dirty' = IF Parent(n) = NoParent THEN Range(timerIDs')
                ELSE dirty \cup {Parent(n)}
    /\ lastOp' = [NoOp EXCEPT !.op = "Delete", !.id = n, !.owner = Parent(n)]
    /\ userStarted' = stillStarted(userStarted, started')
    /\ segments' = [segments EXCEPT ![n] = 0]
    /\ notified' = <<>>
    /\ UNCHANGED <<currentTime, queue, nextId, ticks, notifications, cell, expanded>>

\* faulty variant: the delete button also tells the owner that its child has
\* stopped
Delete_stopsOwner(n) ==
    /\ Idle
    /\ n \in Live
    /\ totalTime' = [totalTime EXCEPT ![n] = 0]
    /\ started' = [m \in Ids |-> IF m = n \/ m = Parent(n) THEN undefined
                                 ELSE started[m]]
    /\ elapsed' = [elapsed EXCEPT ![n] = 0]
    /\ finished' = [finished EXCEPT ![n] = FALSE]
    /\ childRunning' = [m \in Ids |-> IF m = n \/ m = Parent(n) THEN undefined
                                      ELSE childRunning[m]]
    /\ snap' = [started |-> [snap.started EXCEPT ![n] = undefined],
                elapsed |-> [snap.elapsed EXCEPT ![n] = 0],
                childRunning |-> [snap.childRunning EXCEPT ![n] = undefined]]
    /\ IF Parent(n) = NoParent
       THEN /\ timerIDs' = SeqFilterOut(timerIDs, n)
            /\ childrenIDs' = [childrenIDs EXCEPT ![n] = <<>>]
            /\ store' = [store EXCEPT ![n] = @ \ ClearedKeys]
            /\ dirty' = Range(timerIDs')
       ELSE /\ childrenIDs' = [childrenIDs EXCEPT ![n] = <<>>,
                                                  ![Parent(n)] = SeqFilterOut(@, n)]
            /\ store' = [store EXCEPT ![n] = @ \ ClearedKeys,
                                      ![Parent(n)] = @ \cup {"childrenIDs"}]
            /\ dirty' = dirty \cup {Parent(n)}
            /\ UNCHANGED timerIDs
    /\ lastOp' = [NoOp EXCEPT !.op = "Delete", !.id = n, !.owner = Parent(n)]
    /\ userStarted' = stillStarted(userStarted, started')
    /\ segments' = [segments EXCEPT ![n] = 0]
    /\ notified' = <<>>
    /\ UNCHANGED <<currentTime, queue, nextId, ticks, notifications, cell, expanded>>

\* the delete-timer button: clearSelf, then the owner's onDelete
Delete(n) ==
    /\ Idle
    /\ n \in Live
    /\ totalTime' = [totalTime EXCEPT ![n] = 0]
    /\ started' = [started EXCEPT ![n] = undefined]
    /\ elapsed' = [elapsed EXCEPT ![n] = 0]
    /\ finished' = [finished EXCEPT ![n] = FALSE]
    /\ childRunning' = [childRunning EXCEPT ![n] = undefined]
    /\ snap' = [started |-> [snap.started EXCEPT ![n] = undefined],
                elapsed |-> [snap.elapsed EXCEPT ![n] = 0],
                childRunning |-> [snap.childRunning EXCEPT ![n] = undefined]]
    /\ IF Parent(n) = NoParent
       THEN /\ timerIDs' = SeqFilterOut(timerIDs, n)
            /\ childrenIDs' = [childrenIDs EXCEPT ![n] = <<>>]
            /\ store' = [store EXCEPT ![n] = @ \ ClearedKeys]
            /\ dirty' = Range(timerIDs')
       ELSE /\ childrenIDs' = [childrenIDs EXCEPT ![n] = <<>>,
                                                  ![Parent(n)] = SeqFilterOut(@, n)]
            /\ store' = [store EXCEPT ![n] = @ \ ClearedKeys,
                                      ![Parent(n)] = @ \cup {"childrenIDs"}]
            /\ dirty' = dirty \cup {Parent(n)}
            /\ UNCHANGED timerIDs
    /\ lastOp' = [NoOp EXCEPT !.op = "Delete", !.id = n, !.owner = Parent(n)]
    /\ userStarted' = stillStarted(userStarted, started')
    /\ segments' = [segments EXCEPT ![n] = 0]
    /\ notified' = <<>>
    /\ UNCHANGED <<currentTime, queue, nextId, ticks, notifications, cell, expanded>>

\* the interval of TimerPage: setCurrentTime(DateTime.local())
Tick(d) ==
    /\ Idle
    /\ ticks < MaxTicks
    /\ currentTime' = currentTime + d
    /\ ticks' = ticks + 1
    /\ dirty' = Range(timerIDs)
    /\ notified' = <<>>
    /\ UNCHANGED <<timerIDs, childrenIDs, totalTime, started, elapsed, finished,
                   childRunning, store, snap, queue, nextId, lastOp, userStarted,
                   segments, notifications, cell, expanded>>

\* ---- rendering ----

\* React starts a pass over every updated component and its descendants
BeginPass ==
    /\ queue = <<>>
    /\ dirty # {}
    /\ queue' = SelectSeq(PreorderSeq(timerIDs),
                          LAMBDA n : /\ n \in dirty \/ Ancestors(n) \cap dirty # {}
                                     /\ Mounted(n))
    /\ dirty' = {}
    /\ notified' = <<>>
    /\ UNCHANGED <<timerIDs, childrenIDs, totalTime, started, elapsed, finished,
                   childRunning, store, currentTime, snap, nextId, ticks, lastOp,
                   userStarted, segments, notifications, cell, expanded>>

\* one call of the Timer function for the next component of the pass
RenderNode ==
    /\ queue # <<>>
    /\ LET n == Head(queue)
           S == renderTimer(Bundle, n)
       IN  /\ Apply([S EXCEPT !.dirty = @ \ {n}])
           /\ snap' = [started |-> [snap.started EXCEPT ![n] = S.started[n]],
                       elapsed |-> [snap.elapsed EXCEPT ![n] = S.elapsed[n]],
                       childRunning |-> [snap.childRunning EXCEPT
                                            ![n] = S.childRunning[n]]]
    /\ queue' = Tail(queue)
    /\ userStarted' = stillStarted(userStarted, started')
    /\ segments' = closeSegments(started')
    /\ UNCHANGED <<timerIDs, childrenIDs, totalTime, currentTime, nextId, ticks,
                   lastOp, notifications, cell, expanded>>

Next ==
    \/ \E req \in Requests : CreateRoot(req)
    \/ \E p \in Ids, req \in Requests : CreateChild(p, req)
    \/ \E n \in Ids : Start(n)
    \/ \E n \in Ids : Stop(n)
    \/ \E n \in Ids : Reset(n)
    \/ \E n \in Ids : Delete(n)
    \/ \E d \in TickDeltas : ticks < TreeTicks /\ Tick(d)
    \/ BeginPass
    \/ RenderNode

Spec == Init /\ [][Next]_vars

\* ---- the timers together with the notification switch of the settings ----
\* the number of timers created while the switch is in play
NotifyNodes == 2

\* the Notifications switch, once the browser has granted the permission
ToggleNotifications ==
    /\ Idle
    /\ notifications' = ~notifications
    /\ dirty' = Range(timerIDs)
    /\ notified' = <<>>
    /\ UNCHANGED <<timerIDs, childrenIDs, totalTime, started, elapsed, finished,
                   childRunning, store, currentTime, snap, queue, nextId, ticks,
                   lastOp, userStarted, segments, cell, expanded>>

NotifyNext ==
    \/ \E req \in Requests : nextId <= NotifyNodes /\ CreateRoot(req)
    \/ \E p \in Ids, req \in Requests : nextId <= NotifyNodes /\ CreateChild(p, req)
    \/ \E n \in Ids : Start(n)
    \/ \E n \in Ids : Stop(n)
    \/ \E n \in Ids : Reset(n)
    \/ \E n \in Ids : Delete(n)
    \/ \E d \in TickDeltas : Tick(d)
    \/ BeginPass
    \/ RenderNode
    \/ ToggleNotifications

NotifySpec == Init /\ [][NotifyNext]_vars

\* ---- the timers under the scheduling of the browser ----
\* the number of timers created in the runs that are followed to their end
LiveNodes == 2
\* what the user types in the seconds field in these runs
LiveRequests == {1, 2}

TickStep == \E d \in TickDeltas : Tick(d)

LiveNext ==
    \/ \E req \in LiveRequests : nextId <= LiveNodes /\ CreateRoot(req)
    \/ \E p \in Ids, req \in LiveRequests : nextId <= LiveNodes /\ CreateChild(p, req)
    \/ \E n \in Ids : Start(n)
    \/ \E n \in Ids : Stop(n)
    \/ \E n \in Ids : Reset(n)
    \/ \E n \in Ids : Delete(n)
    \/ TickStep
    \/ BeginPass
    \/ RenderNode

\* the interval callback runs every second however busy the user keeps the
\* page (up to the MaxTicks of the model), and React finishes every pass it
\* has scheduled
LiveSpec ==
    /\ Init
    /\ [][LiveNext]_vars
    /\ SF_vars(TickStep)
    /\ WF_vars(BeginPass)
    /\ WF_vars(RenderNode)

\* ---- the timers with the expand button ----
\* the number of timers created while lists are closed and reopened
CollapseNodes == 2
\* what the user types in the seconds field in these runs
CollapseRequests == {1, 2}

\* the expand button of a mounted timer: setExpanded(!expanded); the Collapse
\* around the children mounts their Timers or, with unmountOnExit, unmounts
\* them
toggleExpanded(n) ==
    /\ Idle
    /\ n \in Live
    /\ Mounted(n)
    /\ expanded' = [expanded EXCEPT ![n] = ~expanded[n]]
    /\ dirty' = dirty \cup {n}
    /\ lastOp' = [NoOp EXCEPT !.op = "Expand", !.id = n]
    /\ notified' = <<>>
    /\ UNCHANGED <<timerIDs, childrenIDs, totalTime, started, elapsed, finished,
                   childRunning, store, currentTime, snap, queue, nextId, ticks,
                   userStarted, segments, notifications, cell>>

\* the controls of a timer are there while it is mounted, the button that
\* adds a child while its list is open
CollapseNext ==
    \/ \E req \in CollapseRequests : nextId <= CollapseNodes /\ CreateRoot(req)
    \/ \E p \in Ids, req \in CollapseRequests :
          nextId <= CollapseNodes /\ Mounted(p) /\ expanded[p] /\ CreateChild(p, req)
    \/ \E n \in Ids : Mounted(n) /\ Start(n)
    \/ \E n \in Ids : Mounted(n) /\ Stop(n)
    \/ \E n \in Ids : Mounted(n) /\ Reset(n)
    \/ \E n \in Ids : Mounted(n) /\ Delete(n)
    \/ \E n \in Ids : toggleExpanded(n)
    \/ \E d \in TickDeltas : Tick(d)
    \/ BeginPass
    \/ RenderNode

CollapseSpec == Init /\ [][CollapseNext]_vars

\* ---- the store entry on its own: writes, removals, foreign edits, reads ----
timerVars == <<timerIDs, childrenIDs, totalTime, started, elapsed, finished,
               childRunning, store, currentTime, snap, queue, dirty, nextId, ticks,
               lastOp, userStarted, segments, notifications, notified, expanded>>

\* the values the program writes under each field
DurationInputs ==
    (0..60) \cup {999, 1000, 2000, 3000, 59999, 60000, 61001, 3599999, 3600000,
                  3661001, 86400000}
InstantInputs == {undefined, 0, 1, 999, 1000, 2000, 61001, 3600000}
NameInputs == {<<>>, <<"t", "e", "a">>, <<"a", Quote, "b">>}
IdListInputs == {<<>>, <<1>>, <<2, 3>>, <<3, 1, 2>>}

JSOfChildRunning(v) ==
    IF v = undefined THEN JSUndefined
    ELSE IF v = NONE THEN JSString(NoneChars) ELSE JSString(uuid(v))

JSOfIds(ids) == JSArray([i \in 1..Len(ids) |-> uuid(ids[i])])

JsInputs(f) ==
    CASE f = "name" -> {JSString(c) : c \in NameInputs}
      [] f = "childrenIDs" -> {JSOfIds(ids) : ids \in IdListInputs}
      [] f = "finished" -> {JSBoolean(b) : b \in BOOLEAN}
      [] f = "childRunning" -> {JSOfChildRunning(v) : v \in {undefined, NONE} \cup Ids}
      [] OTHER -> {JSNull}

NumInputs(f) ==
    IF f \in DurationFields THEN DurationInputs
    ELSE IF f \in DateTimeFields THEN InstantInputs ELSE {0}

\* texts that none of the serializers writes for any value
MalformedTexts ==
    {<<>>, <<"x">>, <<"{">>, <<"N", "a", "N">>, <<Quote, "a">>, <<"T">>,
     <<"[", Quote, "1", Quote>>}

\* texts an entry can hold after an edit from outside the program
ForeignTexts == MalformedTexts \cup {QuotedUndefined, <<"0">>, <<"7", "s">>}

\* updateValue: the new state and the entry written together
updateValue(f, num, js) ==
    /\ cell' = [field |-> f, origin |-> "updateValue", present |-> TRUE,
                text |-> stringifyField(f, num, js), reader |-> "none",
                num |-> num, js |-> js, readNum |-> 0, readJs |-> JSNull]
    /\ UNCHANGED timerVars

\* clearValue: removeItem
clearValue ==
    /\ cell.field # "none"
    /\ cell.present
    /\ cell' = [cell EXCEPT !.origin = "clearValue", !.present = FALSE,
                            !.text = <<>>, !.reader = "none", !.readNum = 0,
                            !.readJs = JSNull]
    /\ UNCHANGED timerVars

\* the entry is rewritten outside the program (another tab, the dev tools)
ForeignWrite(f, text) ==
    /\ cell' = [field |-> f, origin |-> "foreign", present |-> TRUE, text |-> text,
                reader |-> "none", num |-> 0, js |-> JSNull, readNum |-> 0,
                readJs |-> JSNull]
    /\ UNCHANGED timerVars

\* a Timer mounts after a reload: the initial state of useLocalStorage
Mount ==
    /\ cell.field # "none"
    /\ cell.reader = "none"
    /\ cell' = [cell EXCEPT
                  !.reader = "useLocalStorage",
                  !.readNum = useLocalStorageNum(cell.field, cell.present, cell.text),
                  !.readJs = useLocalStorageJs(cell.field, cell.present, cell.text)]
    /\ UNCHANGED timerVars

\* the parent of the timer reads "<uuid>-totalTime" for its childrenTime
ReadTimerDuration ==
    /\ cell.field = "totalTime"
    /\ cell.reader = "none"
    /\ cell' = [cell EXCEPT
                  !.reader = "getTimerDuration",
                  !.readNum = getTimerDurationOf(cell.present, cell.text)]
    /\ UNCHANGED timerVars

CodecNext ==
    \/ \E f \in Fields : \E num \in NumInputs(f), js \in JsInputs(f) :
          updateValue(f, num, js)
    \/ clearValue
    \/ \E f \in Fields, text \in ForeignTexts : ForeignWrite(f, text)
    \/ Mount
    \/ ReadTimerDuration

CodecSpec == Init /\ [][CodecNext]_vars

\* ---- sanity of the model ----
TypeOK ==
    /\ \A n \in Ids : started[n] = undefined \/ started[n] \in 0..currentTime
    /\ \A n \in Ids : childRunning[n] \in {undefined, NONE} \cup Ids
    /\ Range(queue) \subseteq Live
    /\ dirty \subseteq Live

\* once React has rendered everything, the closures hold the current values
ClosuresCurrent ==
    Idle => \A n \in Live : /\ snap.started[n] = started[n]
                            /\ snap.elapsed[n] = elapsed[n]
                            /\ snap.childRunning[n] = childRunning[n]

\* ======================= claims =======================

Running(n) == started[n] # undefined

Children(p) == Range(childrenIDs[p])

\* C1 (I2, sibling exclusivity): once React has rendered everything after any
\* sequence of actions and ticks, at most one child of any parent has
\* `started` set.
C1_SiblingExclusivity ==
    Idle => \A p \in Live : Cardinality({c \in Children(p) : Running(c)}) <= 1

\* C1 witness: a child was started while a sibling was running, the
\* evaluation is over, and the sibling has been force-stopped with its
\* run-segment accrued.
C1_Witness ==
    /\ Idle
    /\ lastOp.op = "Start"
    /\ Parent(lastOp.id) # NoParent
    /\ Running(lastOp.id)
    /\ \E d \in Children(Parent(lastOp.id)) \ {lastOp.id} :
          /\ ~Running(d)
          /\ elapsed[d] > lastOp.before[d]

\* C2 (I3, upward running): after a full evaluation, every ancestor of a node
\* with `started` set also has `started` set.
C2_UpwardRunning ==
    Idle => \A n \in Live : Running(n) => \A a \in Ancestors(n) : Running(a)

\* C3 (I1, budget): in every reachable state the totalTime of the direct
\* children of a live node sums to at most the node's own totalTime.
C3_Budget == \A n \in Live : childrenTime(n) <= totalTime[n]

\* C3 witness: a child has just been created whose requested duration
\* exceeded what its parent had left, and the parent's budget is used up.
C3_Witness ==
    /\ lastOp.op = "Create"
    /\ lastOp.id \in Live
    /\ Parent(lastOp.id) # NoParent
    /\ lastOp.req * 1000 > totalTime[lastOp.id]
    /\ Len(childrenIDs[Parent(lastOp.id)]) >= 2
    /\ unallocatedTime(Parent(lastOp.id)) = 0

\* C4 (I4, first half): in every reachable state a node with finished = TRUE
\* has `started` unset.
C4_FinishedNotStarted == \A n \in Live : finished[n] => ~Running(n)

\* C5 (I4, second half): in every reachable state a node with finished = TRUE
\* has timeRemaining below the 10 ms completion threshold.
C5_FinishedNoTimeLeft == \A n \in Live : finished[n] => timeRemaining(n) < Threshold

\* the child of a that lies on the path from a down to n
PathChild(a, n) == CHOOSE c \in Children(a) : c \in Ancestors(n) \cup {n}

\* the step in which component c is rendered and found to have run out of time
CompletionOf(c) == RenderNode /\ queue # <<>> /\ Head(queue) = c /\ completes(c)

\* C6 (start cascade): when Start is applied at currentTime to a node whose
\* ancestors are all Idle, then as soon as the handler returns the node and
\* every ancestor have started = currentTime, and every ancestor's
\* childRunning is its child on the path to the started node.
C6_StartCascade ==
    [][\A n \in Ids :
         (Start(n) /\ \A a \in Ancestors(n) : IsIdle(a))
         => /\ started'[n] = currentTime
            /\ \A a \in Ancestors(n) :
                  /\ started'[a] = currentTime
                  /\ childRunning'[a] = PathChild(a, n)]_vars

\* C6 witness: Start has just returned (nothing rendered yet) for a node two
\* levels below its root, in a tree that was all Idle, at a time after 0.
C6_Witness ==
    /\ lastOp.op = "Start"
    /\ lastOp.idle
    /\ queue = <<>>
    /\ dirty # {}
    /\ currentTime > 0
    /\ Cardinality(Ancestors(lastOp.id)) = 2
    /\ \A m \in Ancestors(lastOp.id) \cup {lastOp.id} : started[m] = currentTime

\* C7 (stop cascade keeps an independently running parent): a parent that
\* the user started directly, and that has been running since, is still
\* Running after a child of it started later is stopped or completes.
C7_ParentKeepsRunning ==
    [][\A c \in Ids :
         /\ Stop(c) \/ CompletionOf(c)
         /\ Parent(c) # NoParent
         /\ Parent(c) \in userStarted
         /\ started[Parent(c)] <= started[c]
         => started'[Parent(c)] # undefined]_vars

\* C8 (start/stop unwinding): a leaf started in a tree whose nodes are all
\* Idle and stopped d later, with no other user action in between, is Idle
\* again together with every ancestor, and the elapsed of each of them has
\* grown by exactly d.
C8_StartStopUnwinds ==
    [][\A n \in Ids :
         /\ Stop(n)
         /\ lastOp.op = "Start"
         /\ lastOp.id = n
         /\ lastOp.idle
         /\ childrenIDs[n] = <<>>
         => \A m \in Ancestors(n) \cup {n} :
               /\ started'[m] = undefined
               /\ ~finished'[m]
               /\ elapsed'[m] = lastOp.before[m] + (currentTime - lastOp.at)]_vars

\* C9 (completion with cascade): when the render of a Running child finds
\* its timeRemaining below the 10 ms threshold while its parent is Running,
\* that same render sets the child finished with `started` unset, adds
\* now - parent.started to the parent's elapsed, unsets the parent's
\* `started`, and leaves the parent's childRunning not naming the child.
C9_CompletionCascade ==
    [][\A c \in Ids :
         (CompletionOf(c) /\ Parent(c) # NoParent /\ Running(Parent(c)))
         => /\ finished'[c]
            /\ started'[c] = undefined
            /\ elapsed'[Parent(c)] =
                  elapsed[Parent(c)] + (currentTime - started[Parent(c)])
            /\ started'[Parent(c)] = undefined
            /\ childRunning'[Parent(c)] # c]_vars

\* C9 witness: the last user action started child c under an Idle parent;
\* since then the clock advanced, c was found out of time and finished, and
\* the parent was stopped by the cascade with the whole segment accrued.
C9_Witness ==
    /\ Idle
    /\ lastOp.op = "Start"
    /\ lastOp.idle
    /\ Parent(lastOp.id) # NoParent
    /\ finished[lastOp.id]
    /\ ~Running(lastOp.id)
    /\ currentTime > lastOp.at
    /\ ~Running(Parent(lastOp.id))
    /\ ~finished[Parent(lastOp.id)]
    /\ elapsed[Parent(lastOp.id)] =
          lastOp.before[Parent(lastOp.id)] + (currentTime - lastOp.at)
    /\ childRunning[Parent(lastOp.id)] = NONE

\* C10 (completion invariant): after every evaluation no live node has
\* `started` set together with timeRemaining below 10 ms, and every render
\* that finds such a node moves it to Finished in that same render.
C10_CompletionInvariant ==
    /\ [](Idle => \A n \in Live : ~(Running(n) /\ timeRemaining(n) < Threshold))
    /\ [][\A n \in Ids : CompletionOf(n) => finished'[n] /\ started'[n] = undefined]_vars

\* C10 witness: the evaluation is over and a node that the last user action
\* started has meanwhile run out of time and is Finished.
C10_Witness ==
    /\ Idle
    /\ lastOp.op = "Start"
    /\ finished[lastOp.id]
    /\ ~Running(lastOp.id)
    /\ totalTime[lastOp.id] - (lastOp.before[lastOp.id] + (currentTime - lastOp.at)) < Threshold

\* C11 (Finished is terminal until Reset): no step other than Reset or
\* Delete of a node with finished = TRUE changes that node's `started` or
\* `finished`; in particular neither a direct Start nor a start cascade from
\* a child gives a Finished node a `started` value.
C11_FinishedTerminal ==
    [][\A n \in Ids :
         (n \in Live /\ finished[n] /\ ~Reset(n) /\ ~Delete(n))
         => /\ started'[n] = started[n]
            /\ finished'[n] = finished[n]]_vars

\* C12 (direct-start guard): whenever an Idle live node whose unallocatedTime
\* is not above zero gets `started` set, the step is a Start of one of its
\* descendants (a start cascade), never a Start of the node itself.
C12_DirectStartGuard ==
    [][\A n \in Ids :
         (n \in Live /\ unallocatedTime(n) <= 0 /\ IsIdle(n) /\ started'[n] # undefined)
         => \E d \in Ids : n \in Ancestors(d) /\ Start(d)]_vars

\* C12 witness: the handler of a Start has just returned; an ancestor of the
\* started node whose whole budget is given to its children was Idle before
\* and is running now, started by the cascade.
C12_Witness ==
    /\ lastOp.op = "Start"
    /\ queue = <<>>
    /\ dirty # {}
    /\ \E a \in Ancestors(lastOp.id) :
          /\ unallocatedTime(a) = 0
          /\ totalTime[a] > 0
          /\ lastOp.run[a] = undefined
          /\ ~finished[a]
          /\ started[a] = lastOp.at

\* C13 (Stop transition): Stop applied at currentTime to a Running node adds
\* currentTime - started to its elapsed, unsets its `started`, leaves
\* `finished` false and, if its childRunning was set, leaves childRunning at
\* the "__NONE__" sentinel, which is not the unset value.
C13_StopTransition ==
    [][\A n \in Ids :
         Stop(n)
         => /\ elapsed'[n] = elapsed[n] + (currentTime - started[n])
            /\ started'[n] = undefined
            /\ finished'[n] = FALSE
            /\ childRunning[n] # undefined
                  => (childRunning'[n] = NONE /\ childRunning'[n] # undefined)]_vars

\* C13 witness: the Stop handler has just returned for a node that ran for
\* some time and was tracking a child, which is still running.
C13_Witness ==
    /\ lastOp.op = "Stop"
    /\ queue = <<>>
    /\ dirty # {}
    /\ started[lastOp.id] = undefined
    /\ elapsed[lastOp.id] > 0
    /\ childRunning[lastOp.id] = NONE
    /\ \E c \in Children(lastOp.id) : Running(c)

\* C14 (sibling switch): when child B of parent P is started at `now` while
\* a sibling A is Running, then once the evaluation that follows is over A
\* has `started` unset, its elapsed has grown by exactly now - A.started,
\* its `finished` is unchanged, B has started = now and P.childRunning = B.
C14_SiblingSwitch ==
    (/\ Idle
     /\ lastOp.op = "Start"
     /\ currentTime = lastOp.at
     /\ Parent(lastOp.id) # NoParent)
    => /\ started[lastOp.id] = lastOp.at
       /\ childRunning[Parent(lastOp.id)] = lastOp.id
       /\ \A A \in Children(Parent(lastOp.id)) \ {lastOp.id} :
             lastOp.run[A] # undefined
             => /\ started[A] = undefined
                /\ elapsed[A] = lastOp.before[A] + (lastOp.at - lastOp.run[A])
                /\ finished[A] = lastOp.fin[A]

\* C14 witness: the evaluation after the Start of B is over, and a sibling
\* that had been running for some time when B was started is now stopped.
C14_Witness ==
    /\ Idle
    /\ lastOp.op = "Start"
    /\ currentTime = lastOp.at
    /\ Parent(lastOp.id) # NoParent
    /\ started[lastOp.id] = lastOp.at
    /\ \E A \in Children(Parent(lastOp.id)) \ {lastOp.id} :
          /\ lastOp.run[A] # undefined
          /\ lastOp.run[A] < lastOp.at
          /\ started[A] = undefined

\* the value of timeRemaining computed from the given field values
timeRemainingOf(tt, st, el, now, n) ==
    tt[n] - ((IF st[n] # undefined THEN now - st[n] ELSE 0) + el[n])

\* C15 (Reset): Reset applied at currentTime to a node sets its elapsed to
\* zero and its `finished` to false; a Running node stays Running with
\* started = currentTime, any other node keeps `started` unset; right after
\* the Reset the node's timeRemaining equals its totalTime.
C15_Reset ==
    [][\A n \in Ids :
         Reset(n)
         => /\ elapsed'[n] = 0
            /\ finished'[n] = FALSE
            /\ started'[n] = (IF started[n] # undefined THEN currentTime ELSE undefined)
            /\ timeRemainingOf(totalTime', started', elapsed', currentTime', n)
                  = totalTime'[n]]_vars

\* C15 witness: the Reset handler has just returned for a node that is
\* running, after the clock advanced: its window restarts at currentTime
\* with nothing elapsed.
C15_Witness ==
    /\ lastOp.op = "Reset"
    /\ queue = <<>>
    /\ dirty # {}
    /\ currentTime > 0
    /\ started[lastOp.id] = currentTime
    /\ elapsed[lastOp.id] = 0
    /\ timeRemaining(lastOp.id) = totalTime[lastOp.id]

\* C16 (elapsed accounting): in every reachable state the elapsed of a live
\* node equals the total length of the run-segments it has closed since its
\* last Reset, whether they were closed by Stop, by the sibling check or by
\* completion.
C16_ElapsedAccounting == \A n \in Live : elapsed[n] = segments[n]

RECURSIVE SetSum(_, _)
SetSum(f, S) ==
    IF S = {} THEN 0
    ELSE LET x == CHOOSE y \in S : TRUE IN f[x] + SetSum(f, S \ {x})

\* the totalTime persisted for the direct children of n, added up
DirectChildrenTotal(n) == SetSum(totalTime, Children(n))

\* for every live node unallocatedTime is totalTime minus the persisted
\* totalTime of its direct children, startable holds exactly when that is
\* above zero, so a node stays startable while its children take only part
\* of its budget and is not startable once they take all of it
DerivedAllocation ==
    \A n \in Live :
        /\ unallocatedTime(n) = totalTime[n] - DirectChildrenTotal(n)
        /\ startable(n) <=> (unallocatedTime(n) > 0)
        /\ DirectChildrenTotal(n) < totalTime[n] => startable(n)
        /\ (Children(n) # {} /\ DirectChildrenTotal(n) = totalTime[n]) => ~startable(n)

NewRoot(n) == lastOp.op = "Create" /\ lastOp.id = n /\ n \in Range(timerIDs)

\* C17 as stated (derived allocation): DerivedAllocation holds, and every
\* new root is startable with unallocatedTime = totalTime.
C17_DerivedAllocation_AnyRoot ==
    /\ DerivedAllocation
    /\ \A n \in Ids : NewRoot(n) => (startable(n) /\ unallocatedTime(n) = totalTime[n])

\* C17 as amended (derived allocation): DerivedAllocation holds, every new
\* root has unallocatedTime = totalTime, and it is startable exactly when
\* that totalTime is above zero.
C17_DerivedAllocation ==
    /\ DerivedAllocation
    /\ \A n \in Ids :
          NewRoot(n) => /\ unallocatedTime(n) = totalTime[n]
                        /\ startable(n) <=> (totalTime[n] > 0)

\* C17 witness: a node whose children take its whole budget is not
\* startable, although one child has used part of its own time and has a
\* child of its own with a budget above zero.
C17_Witness ==
    \E n \in Live : \E c \in Children(n) : \E g \in Children(c) :
        /\ totalTime[n] > 0
        /\ ~startable(n)
        /\ unallocatedTime(n) = 0
        /\ elapsed[c] > 0
        /\ totalTime[g] > 0

Clamp(x, lo, hi) == IF x < lo THEN lo ELSE IF x > hi THEN hi ELSE x

C19_DeletePurgesKeys ==
    [][\A n \in Ids : Delete(n) => store'[n] \cap KeyNames = {}]_vars

IndexOf(s, x) == CHOOSE i \in DOMAIN s : s[i] = x

\* list `after` is list `before` without x, the other entries in the same order
RemovedFrom(before, after, x) ==
    /\ x \notin Range(after)
    /\ Range(after) = Range(before) \ {x}
    /\ Len(after) = Len(before) - 1
    /\ \A a, b \in Range(after) :
          (IndexOf(after, a) < IndexOf(after, b)) <=> (IndexOf(before, a) < IndexOf(before, b))

\* C20 (Delete removes the edge and frees the budget): right after Delete of
\* child X of P (or of root X) X is no longer in P.childrenIDs (or in the
\* root registry), the other ids are still there in the same relative
\* order, and P.unallocatedTime is P.totalTime minus the totalTime of the
\* children that remain, so it has grown by X's totalTime.
C20_DeleteRemovesEdge ==
    [][\A n \in Ids :
         Delete(n)
         => IF Parent(n) = NoParent
            THEN RemovedFrom(timerIDs, timerIDs', n)
            ELSE \A p \in Ids :
                   p = Parent(n)
                   => /\ RemovedFrom(childrenIDs[p], childrenIDs'[p], n)
                      /\ unallocatedTime(p)'
                            = totalTime'[p] - SetSum(totalTime', Range(childrenIDs'[p]))
                      /\ unallocatedTime(p)' = unallocatedTime(p) + totalTime[n]]_vars

\* C20 witness: the Delete handler has just returned for a child with a
\* budget of its own; a sibling created after it is still listed, and the
\* parent has unallocated time again.
C20_Witness ==
    /\ lastOp.op = "Delete"
    /\ lastOp.owner # NoParent
    /\ lastOp.owner \in Live
    /\ queue = <<>>
    /\ lastOp.owner \in dirty
    /\ lastOp.id \notin Children(lastOp.owner)
    /\ \E c \in Children(lastOp.owner) : c > lastOp.id /\ totalTime[c] > 0
    /\ unallocatedTime(lastOp.owner) > 0

\* the nodes below n: those that reach n by walking up the parent links
Descendants(n) == {d \in Ids : n \in Ancestors(d)}

\* C21 (delete is not recursive): the Delete of X leaves every persisted
\* field of every descendant of X as it was in the store (the same keys with
\* the same values), and afterwards no descendant can be reached from a root
\* by walking childrenIDs.
C21_DeleteNotRecursive ==
    [][\A n \in Ids :
         Delete(n)
         => \A d \in Descendants(n) :
               /\ store'[d] = store[d]
               /\ totalTime'[d] = totalTime[d]
               /\ childrenIDs'[d] = childrenIDs[d]
               /\ started'[d] = started[d]
               /\ elapsed'[d] = elapsed[d]
               /\ finished'[d] = finished[d]
               /\ childRunning'[d] = childRunning[d]
               /\ d \notin Live']_vars

\* C21 witness: a node with a child below it has been deleted; the child is
\* no longer reachable, yet its keys are all in the store and its budget and
\* the time it had accrued are still recorded.
C21_Witness ==
    /\ lastOp.op = "Delete"
    /\ \E d \in Ids \ Live :
          /\ SavedKeys \cup {"elapsed", "started"} \subseteq store[d]
          /\ totalTime[d] > 0
          /\ elapsed[d] > 0

\* C23 (codec round trip): a duration of a whole number of milliseconds that
\* was written with durationSerializer is read back with the same length; a
\* timestamp written with datetimeMaybeSerializer is read back as the same
\* instant; an unset timestamp is written as the quoted word undefined, and
\* that text is read as unset.
C23_CodecRoundTrip ==
    (cell.field # "none" /\ cell.reader = "useLocalStorage")
    => /\ (cell.origin = "updateValue" /\ cell.field \in NumFields)
          => cell.readNum = cell.num
       /\ (cell.origin = "updateValue" /\ cell.field \in DateTimeFields)
          => (cell.num = undefined <=> cell.text = QuotedUndefined)
       /\ (cell.field \in DateTimeFields /\ cell.text = QuotedUndefined)
          => cell.readNum = undefined

\* C23 witness: a duration that uses all three units and a fraction of a
\* second has been written and read back.
C23_Witness ==
    /\ cell.field = "elapsed"
    /\ cell.origin = "updateValue"
    /\ cell.reader = "useLocalStorage"
    /\ cell.num = 3661001
    /\ cell.text = <<"3", "6", "6", "1", "0", "0", "1">>

\* C24 (default-tolerant reads): a field whose key is absent reads as its
\* default, name "unnamed", totalTime 0, no children, started unset,
\* elapsed 0, finished false, childRunning unset; and the duration a parent
\* reads for a child whose totalTime key is absent is zero.
C24_DefaultReads ==
    (cell.field # "none" /\ ~cell.present)
    => /\ cell.reader = "useLocalStorage"
          => /\ cell.field = "name"
                => cell.readJs = JSString(<<"u", "n", "n", "a", "m", "e", "d">>)
             /\ cell.field = "totalTime" => cell.readNum = 0
             /\ cell.field = "childrenIDs" => cell.readJs = JSArray(<<>>)
             /\ cell.field = "started" => cell.readNum = undefined
             /\ cell.field = "elapsed" => cell.readNum = 0
             /\ cell.field = "finished" => cell.readJs = JSBoolean(FALSE)
             /\ cell.field = "childRunning" => cell.readJs = JSUndefined
       /\ cell.reader = "getTimerDuration" => cell.readNum = 0

\* C24 witness: the totalTime key of a timer was removed and its parent has
\* read the duration of that timer.
C24_Witness ==
    /\ cell.field = "totalTime"
    /\ cell.origin = "clearValue"
    /\ ~cell.present
    /\ cell.num > 0
    /\ cell.reader = "getTimerDuration"
    /\ cell.readNum = 0

\* C25 (malformed entries): an entry whose text is malformed is read as the
\* default of its field, and the read raises no error.
C25_MalformedFallsBack ==
    (/\ cell.field # "none"
     /\ cell.origin = "foreign"
     /\ cell.text \in MalformedTexts
     /\ cell.reader = "useLocalStorage")
    => /\ cell.readJs # SyntaxError
       /\ cell.readNum # InvalidValue
       /\ cell.readNum = DefaultNum(cell.field)
       /\ cell.readJs = DefaultJs(cell.field)

\* ---- the store entries of a timer, seen from its in-memory state ----
\* the value a Timer holds for a field (the name is not part of the model)
numOf(n, f) ==
    CASE f = "totalTime" -> totalTime[n]
      [] f = "elapsed" -> elapsed[n]
      [] f = "started" -> started[n]
      [] OTHER -> 0

jsOf(n, f) ==
    CASE f = "childrenIDs" -> JSOfIds(childrenIDs[n])
      [] f = "finished" -> JSBoolean(finished[n])
      [] f = "childRunning" -> JSOfChildRunning(childRunning[n])
      [] OTHER -> JSNull

\* localStorage.getItem("<n>-<f>") for a key that is present: every write of
\* a key is updateValue or saveTimer, which store the stringified value that
\* the component holds
getItem(n, f) == stringifyField(f, numOf(n, f), jsOf(n, f))

StateFields == Fields \ {"name"}

\* C22 (durability across reloads): for every live node the entries of the
\* store decode to the values held in memory for totalTime, childrenIDs,
\* started, elapsed, finished and childRunning (an absent key being the
\* default), and the root registry decodes to the list of roots, so that a
\* reload rebuilds the same tree and runtime state.
C22_Durable ==
    /\ \A n \in Live : \A f \in StateFields :
          IF f \in NumFields
          THEN useLocalStorageNum(f, f \in store[n], getItem(n, f)) = numOf(n, f)
          ELSE useLocalStorageJs(f, f \in store[n], getItem(n, f)) = jsOf(n, f)
    /\ defaultSerializer_parse(defaultSerializer_stringify(JSOfIds(timerIDs)))
          = JSOfIds(timerIDs)

\* the same with childRunning left out
DurableButChildRunning ==
    /\ \A n \in Live : \A f \in StateFields \ {"childRunning"} :
          IF f \in NumFields
          THEN useLocalStorageNum(f, f \in store[n], getItem(n, f)) = numOf(n, f)
          ELSE useLocalStorageJs(f, f \in store[n], getItem(n, f)) = jsOf(n, f)
    /\ defaultSerializer_parse(defaultSerializer_stringify(JSOfIds(timerIDs)))
          = JSOfIds(timerIDs)

RenderAgrees ==
    [][RenderNode
       => LET R == renderTimerIn(World, Head(queue))
          IN  /\ started' = R.started
              /\ elapsed' = R.elapsed
              /\ finished' = R.finished
              /\ childRunning' = R.childRunning
              /\ store' = R.store
              /\ dirty' = R.dirty
              /\ notified' = R.notified
              /\ snap' = R.snap]_vars

\* the orders in which the components of q can render when siblings are
\* taken in any order: every component after its ancestors
PassOrders(q) ==
    {o \in [1..Len(q) -> Range(q)] :
        /\ \A i, j \in 1..Len(q) : i # j => o[i] # o[j]
        /\ \A i, j \in 1..Len(q) : o[j] \in Ancestors(o[i]) => j < i}

\* the field values a pass leaves behind
FieldValues(W) == [started |-> W.started, elapsed |-> W.elapsed,
                   finished |-> W.finished, childRunning |-> W.childRunning,
                   store |-> W.store]

\* C27 (sibling evaluation order): whatever the state and the time at which
\* a pass begins, rendering the siblings of that pass in any order leaves
\* the same field values in all nodes.
C27_SiblingOrderIrrelevant ==
    Len(queue) >= 2
    => LET R == FieldValues(RunPass(World, queue))
       IN  \A o \in PassOrders(queue) : FieldValues(RunPass(World, o)) = R

\* C27 witness: a pass is about to render a parent and two of its children
\* that are both running, and it will change the fields of one of them.
C27_Witness ==
    /\ Len(queue) = 3
    /\ \E a, b \in Range(queue) :
          /\ a # b
          /\ Parent(a) # NoParent
          /\ Parent(a) = Parent(b)
          /\ Running(a)
          /\ Running(b)
    /\ FieldValues(RunPass(World, queue)) # FieldValues(World)

\* C28 (notification on completion): the render in which a Running node is
\* found out of time shows exactly one notification, titled "Timer finished"
\* with the node's name as its body, when notifications are enabled and
\* none when they are disabled; no other step shows a notification.
C28_NotificationOnCompletion ==
    [][IF \E c \in Ids : CompletionOf(c)
       THEN \A c \in Ids :
              CompletionOf(c)
              => notified' = IF notifications
                             THEN <<[title |-> "Timer finished", body |-> c]>>
                             ELSE <<>>
       ELSE notified' = <<>>]_vars

\* C28 witness: notifications are enabled and the render of a child has just
\* completed it, stopped its parent, and shown the one notification.
C28_Witness ==
    /\ notifications
    /\ \E c \in Live :
          /\ Parent(c) # NoParent
          /\ notified = <<[title |-> "Timer finished", body |-> c]>>
          /\ finished[c]
          /\ ~Running(c)
          /\ ~finished[Parent(c)]
          /\ ~Running(Parent(c))

\* C30 (childRunning is a tri-state): in every reachable state the
\* childRunning of every live node is unset, the none mark, or the id of a
\* node that is in that node's own childrenIDs; it never names a child that
\* has been deleted.
C30_ChildRunningTriState ==
    \A n \in Live : childRunning[n] \in {undefined, NONE} \cup Children(n)

\* the clock of the model has made its last tick and n, rendered since, has
\* time left
ClockStopped(n) ==
    /\ ticks = MaxTicks
    /\ Idle
    /\ timeRemaining(n) >= Threshold

\* the steps that end a run of n short of its completion
Interrupts(n) ==
    \/ Stop(n)
    \/ Delete(n)
    \/ RenderNode /\ queue # <<>> /\ Head(queue) = n /\ forceStopped(n)
    \/ \E c \in Descendants(n) : Stop(c) \/ CompletionOf(c)

\* C29 (eventual completion): a Running node eventually is finished with
\* `started` unset, unless it is stopped or force-stopped before it has
\* finished, or deleted, or the clock stops ticking while it has time left
\* (which a reset can bring about by giving the node its whole budget back);
\* and a run that no stop, force-stop, cascade or delete interrupts ends
\* only with the node finished.
C29_EventualCompletion ==
    /\ \A n \in Ids :
          (n \in Live /\ Running(n))
          ~> \/ finished[n] /\ ~Running(n)
             \/ ~finished[n] /\ ~Running(n)
             \/ n \notin Live
             \/ ClockStopped(n)
    /\ [][\A n \in Ids :
            (n \in Live /\ Running(n) /\ started'[n] = undefined /\ ~Interrupts(n))
            => finished'[n]]_vars

\* C29 witness: a timer of two seconds was started at time 0, no user action
\* followed, and after the second tick it is finished and no longer running.
C29_Witness ==
    /\ lastOp.op = "Start"
    /\ lastOp.at = 0
    /\ totalTime[lastOp.id] = 2000
    /\ currentTime = 2000
    /\ Idle
    /\ finished[lastOp.id]
    /\ ~Running(lastOp.id)
    /\ elapsed[lastOp.id] = 0

\* the components of the pass React starts for the updated components d:
\* each of them and its descendants
PassQueueOf(d) ==
    SelectSeq(PreorderSeq(timerIDs),
              LAMBDA n : /\ n \in d \/ Ancestors(n) \cap d # {}
                         /\ Mounted(n))

\* the state a handler leaves (S, its updates), as the next render finds it
WorldOf(S) == [started |-> S.started, elapsed |-> S.elapsed, finished |-> S.finished,
               childRunning |-> S.childRunning, store |-> S.store, dirty |-> S.dirty,
               notified |-> <<>>, snap |-> snap]

\* the state left by the pass that follows a handler with the updates S
AfterPassOf(S) == RunPass(WorldOf(S), PassQueueOf(S.dirty))

\* the state left by the pass that is about to begin
AfterPass == AfterPassOf(Bundle)

\* C31 (stopping a parent stops its running child): when Stop is applied to
\* a Running node P whose childRunning is the id of a Running child C, the
\* handler leaves P.childRunning at the none mark, and the evaluation pass
\* that follows leaves C with `started` unset and with its elapsed grown by
\* now - C.started.
C31_StopParentStopsChild ==
    [][\A p, c \in Ids :
         (c \in Children(p) /\ childRunning[p] = c /\ Running(c) /\ Stop(p))
         => /\ childRunning'[p] = NONE
            /\ childRunning'[p] # c
            /\ LET R == AfterPassOf(stopTimer(Bundle, p))
               IN  /\ R.started[c] = undefined
                   /\ R.elapsed[c] = elapsed[c] + (currentTime - started[c])]_vars

\* the same for a child whose Timer is mounted (the list of P is open)
StopParentStopsMountedChild ==
    [][\A p, c \in Ids :
         (/\ c \in Children(p)
          /\ childRunning[p] = c
          /\ Running(c)
          /\ Mounted(c)
          /\ Stop(p))
         => /\ childRunning'[p] = NONE
            /\ LET R == AfterPassOf(stopTimer(Bundle, p))
               IN  /\ R.started[c] = undefined
                   /\ R.elapsed[c] = elapsed[c] + (currentTime - started[c])]_vars

\* the render of component n in which the sibling-exclusion check stops it
ForceStopOf(n) == RenderNode /\ queue # <<>> /\ Head(queue) = n /\ forceStopped(n)

\* C32 (a force-stop does not disturb the parent): the sibling-exclusion
\* check that force-stops a Running child changes no field of the parent
\* (no stop cascade is sent), so the render leaves the parent's started,
\* elapsed, finished and childRunning as they were; and once the evaluation
\* after a switch from a Running child A to its sibling B under a Running
\* parent is over, the parent still has the `started` it had before the
\* switch, with elapsed and finished unchanged and childRunning = B.
C32_ForceStopLeavesParent ==
    /\ [][\A n \in Ids :
            ForceStopOf(n)
            => \A p \in Ids :
                 p = Parent(n)
                 => /\ LET S == completionCheck(Bundle, n)
                           R == siblingCheck(S, n)
                       IN  /\ R.started[p] = S.started[p]
                           /\ R.elapsed[p] = S.elapsed[p]
                           /\ R.finished[p] = S.finished[p]
                           /\ R.childRunning[p] = S.childRunning[p]
                    /\ ~completes(n)
                       => /\ started'[p] = started[p]
                          /\ elapsed'[p] = elapsed[p]
                          /\ finished'[p] = finished[p]
                          /\ childRunning'[p] = childRunning[p]]_vars
    /\ [](\A p \in Ids :
            (/\ Idle
             /\ lastOp.op = "Start"
             /\ currentTime = lastOp.at
             /\ p = Parent(lastOp.id)
             /\ lastOp.run[p] # undefined
             /\ \E A \in Children(p) \ {lastOp.id} : lastOp.run[A] # undefined)
            => /\ started[p] = lastOp.run[p]
               /\ elapsed[p] = lastOp.before[p]
               /\ finished[p] = lastOp.fin[p]
               /\ childRunning[p] = lastOp.id)

\* C32 witness: child A was started first and started its parent; later a
\* sibling B was started; the evaluation is over, A has been force-stopped
\* with its segment accrued, B runs, and the parent still runs in the
\* segment that began before the switch, with nothing accrued.
C32_Witness ==
    /\ Idle
    /\ lastOp.op = "Start"
    /\ currentTime = lastOp.at
    /\ Parent(lastOp.id) # NoParent
    /\ Running(lastOp.id)
    /\ lastOp.run[Parent(lastOp.id)] # undefined
    /\ lastOp.run[Parent(lastOp.id)] < lastOp.at
    /\ started[Parent(lastOp.id)] = lastOp.run[Parent(lastOp.id)]
    /\ elapsed[Parent(lastOp.id)] = 0
    /\ \E A \in Children(Parent(lastOp.id)) \ {lastOp.id} :
          /\ lastOp.run[A] = lastOp.run[Parent(lastOp.id)]
          /\ ~Running(A)
          /\ elapsed[A] = lastOp.at - lastOp.run[A]

\* C33 (persisted childRunning round trip): for every live node whose
\* childRunning key has been written, the stored text is parsed by the
\* reader without error and gives the value the node holds: unset, the id
\* of a child, or the none mark.
C33_ChildRunningRoundTrip ==
    \A n \in Live :
        "childRunning" \in store[n]
        => LET text == getItem(n, "childRunning")
           IN  /\ defaultSerializer_parse(text) # SyntaxError
               /\ defaultSerializer_parse(text) = JSOfChildRunning(childRunning[n])

\* the same for the values that are set: the id of a child and the none mark
ChildRunningSetRoundTrip ==
    \A n \in Live :
        ("childRunning" \in store[n] /\ childRunning[n] # undefined)
        => defaultSerializer_parse(getItem(n, "childRunning"))
              = JSOfChildRunning(childRunning[n])

\* the pass over every mounted Timer, as a tick starts it
EveryTimer == PassQueueOf(Range(timerIDs))

\* C34 (evaluation is idempotent): once an evaluation pass has applied its
\* corrections, a second pass over every Timer at the same `now`, with
\* no action in between, changes no persisted field of any node.  This holds
\* for the pass that follows any handler or tick, and for every state in
\* which nothing is left to render.
C34_EvaluationIdempotent ==
    /\ (queue = <<>> /\ dirty # {})
       => LET W1 == AfterPass
          IN  FieldValues(RunPass(W1, EveryTimer)) = FieldValues(W1)
    /\ Idle => FieldValues(RunPass(World, EveryTimer)) = FieldValues(World)

\* C34 witness: a pass is about to begin that applies corrections (it finds
\* a Running child out of time, finishes it and stops its Running parent),
\* after the clock has advanced.
C34_Witness ==
    /\ queue = <<>>
    /\ dirty # {}
    /\ currentTime > 0
    /\ \E c \in Live :
          /\ Parent(c) # NoParent
          /\ Running(c)
          /\ Running(Parent(c))
          /\ AfterPass.finished[c]
          /\ AfterPass.started[c] = undefined
          /\ AfterPass.started[Parent(c)] = undefined
          /\ AfterPass.elapsed[Parent(c)] > elapsed[Parent(c)]

\* a step in which the user acts
UserStep == lastOp' # lastOp

\* C35 (deleting a Running child sends no stop cascade): the Delete of a
\* Running child leaves started, elapsed, finished and childRunning of its
\* parent and of every ancestor exactly as they were; and from then on,
\* until the user acts again, the parent and the ancestors that are Running
\* lose `started` only when one of them is found out of time (the node
\* itself, or a node below it whose completion cascades upwards).
C35_DeleteSendsNoCascade ==
    /\ [][\A c \in Ids :
            (Delete(c) /\ Running(c) /\ Parent(c) # NoParent)
            => \A a \in Ancestors(c) :
                  /\ started'[a] = started[a]
                  /\ elapsed'[a] = elapsed[a]
                  /\ finished'[a] = finished[a]
                  /\ childRunning'[a] = childRunning[a]]_vars
    /\ [][\A a \in Ids :
            (/\ lastOp.op = "Delete"
             /\ lastOp.owner # NoParent
             /\ a \in Live
             /\ a \in {lastOp.owner} \cup Ancestors(lastOp.owner)
             /\ Running(a)
             /\ started'[a] = undefined)
            => \/ UserStep
               \/ \E m \in {a} \cup Descendants(a) : CompletionOf(m)]_vars

\* the deleted child that a Running owner names in childRunning was Running
DeletedTrackedChildRuns ==
    [][\A c \in Ids :
         (Delete(c) /\ Parent(c) # NoParent /\ Running(Parent(c))
          /\ childRunning[Parent(c)] = c /\ ~finished[Parent(c)])
         => Running(c)]_vars

\* C35 witness: a child was deleted while its parent was tracking it as the
\* running child; since then the clock has advanced and the evaluation is
\* over, and the parent is still Running in the same segment, consuming its
\* budget, with childRunning still naming the deleted child.
C35_Witness ==
    /\ Idle
    /\ lastOp.op = "Delete"
    /\ lastOp.owner \in Live
    /\ lastOp.id \notin Live
    /\ childRunning[lastOp.owner] = lastOp.id
    /\ Running(lastOp.owner)
    /\ ~finished[lastOp.owner]
    /\ started[lastOp.owner] < currentTime
    /\ elapsed[lastOp.owner] = 0
    /\ timeRemaining(lastOp.owner) < totalTime[lastOp.owner]

\* C36 (elapsed is bounded): in every reachable state every live node has
\* 0 <= elapsed <= totalTime, whatever starts, stops, force-stops, cascades
\* and resets came before (the clock of the model never goes backwards).
C36_ElapsedBounded ==
    \A n \in Live : 0 <= elapsed[n] /\ elapsed[n] <= totalTime[n]

Roots == Range(timerIDs)

\* the step leaves the four run-time fields of m as they are
SameRunState(m) ==
    /\ started'[m] = started[m]
    /\ elapsed'[m] = elapsed[m]
    /\ finished'[m] = finished[m]
    /\ childRunning'[m] = childRunning[m]

\* C37 (roots are not mutually exclusive): a root is handed no
\* siblingRunning value, so its sibling-exclusion check never fires; the
\* Start or the Stop of a root changes no run-time field of another root or
\* of a node below another root, and neither does any render of a node of
\* its tree.  (That several roots do run at the same time is what the
\* witness shows.)
C37_RootsIndependent ==
    /\ [](\A r \in Roots : siblingRunning(r) = undefined /\ ~forceStopped(r))
    /\ [][\A r \in Ids :
            (r \in Roots /\ (Start(r) \/ Stop(r)))
            => \A m \in Live : RootOf(m) # r => SameRunState(m)]_vars
    /\ [][\A n \in Ids :
            (RenderNode /\ queue # <<>> /\ Head(queue) = n)
            => \A m \in Live : RootOf(m) # RootOf(n) => SameRunState(m)]_vars

\* C37 witness: three roots were running at the same time; one of them has
\* been stopped after the clock advanced, the evaluation is over, and the
\* other two are still running in the segments they began with.
C37_Witness ==
    /\ Idle
    /\ Len(timerIDs) = 3
    /\ lastOp.op = "Stop"
    /\ lastOp.id \in Roots
    /\ ~Running(lastOp.id)
    /\ elapsed[lastOp.id] > 0
    /\ \A r \in Roots \ {lastOp.id} :
          /\ Running(r)
          /\ started[r] < currentTime
          /\ elapsed[r] = 0

\* the updates the reset button makes for n
resetUpdates(n) ==
    LET S1 == setFinished(setElapsed(Bundle, n, 0), n, FALSE)
    IN  IF started[n] # undefined THEN setStarted(S1, n, currentTime) ELSE S1

\* C38 (Reset is local): the Reset of a node changes nothing but that
\* node's elapsed, finished and (if it is Running) started: its
\* childRunning, and the started, elapsed, finished and childRunning of
\* every other node (parent, ancestors, siblings, descendants) are as
\* before, so the time an ancestor was charged is not given back; the
\* budgets and the tree are untouched; and the pass that follows the Reset
\* changes no field of any node.
C38_ResetIsLocal ==
    [][\A n \in Ids :
         Reset(n)
         => /\ \A m \in Ids \ {n} : SameRunState(m)
            /\ childRunning'[n] = childRunning[n]
            /\ ~Running(n) => started'[n] = started[n]
            /\ totalTime' = totalTime
            /\ childrenIDs' = childrenIDs
            /\ timerIDs' = timerIDs
            /\ \A a \in Ancestors(n) : elapsed'[a] = elapsed[a]
            /\ LET S == resetUpdates(n)
                   R == AfterPassOf(S)
               IN  /\ started' = S.started
                   /\ elapsed' = S.elapsed
                   /\ finished' = S.finished
                   /\ childRunning' = S.childRunning
                   /\ R.started = S.started
                   /\ R.elapsed = S.elapsed
                   /\ R.finished = S.finished
                   /\ R.childRunning = S.childRunning]_vars

\* C38 witness: a child that had run for a second was stopped, which
\* charged the same second to its parent through the stop cascade; the
\* child has now been reset, its elapsed is zero again, and the parent
\* still holds the second it was charged.
C38_Witness ==
    /\ lastOp.op = "Reset"
    /\ queue = <<>>
    /\ lastOp.id \in dirty
    /\ Parent(lastOp.id) # NoParent
    /\ ~Running(lastOp.id)
    /\ elapsed[lastOp.id] = 0
    /\ segments[lastOp.id] = 0
    /\ ~Running(Parent(lastOp.id))
    /\ elapsed[Parent(lastOp.id)] = 1000
    /\ segments[Parent(lastOp.id)] = 1000
    /\ currentTime = 1000

\* the places an id can stand in: position i of the root registry (owner
\* NoParent) or position i of the childrenIDs list of a live node p
Slots ==
    {<<NoParent, i>> : i \in DOMAIN timerIDs}
    \cup UNION {{<<p, i>> : i \in DOMAIN childrenIDs[p]} : p \in Live}

SlotId(s) == IF s[1] = NoParent THEN timerIDs[s[2]] ELSE childrenIDs[s[1]][s[2]]

\* the list of an owner (the root registry for NoParent)
ListOf(o) == IF o = NoParent THEN timerIDs ELSE childrenIDs[o]

\* ids are handed out in the order of creation, so a list in creation order is
\* a list of increasing ids
InCreationOrder(s) == \A i, j \in DOMAIN s : i < j => s[i] < s[j]

\* C39 (forest structure): in every reachable state each live id stands in
\* exactly one place across the root registry and the childrenIDs lists of
\* the live nodes (no duplicate in a list, no node with two owners) and every
\* place holds a live id; the id of a newly created node is appended at the
\* end of the list of its owner, every other list being unchanged, so that
\* each list is in the order of creation.
C39_ForestStructure ==
    /\ [](/\ \A n \in Live : Cardinality({s \in Slots : SlotId(s) = n}) = 1
          /\ \A s \in Slots : SlotId(s) \in Live /\ SlotId(s) < nextId
          /\ \A o \in Live \cup {NoParent} : InCreationOrder(ListOf(o)))
    /\ [][nextId' # nextId
          => \E o \in Live \cup {NoParent} :
                /\ ListOf(o)' = Append(ListOf(o), nextId)
                /\ \A q \in (Ids \cup {NoParent}) \ {o} : ListOf(q)' = ListOf(q)
                /\ nextId \in Live']_vars

\* C39 witness: a root owns two children, the second of which has just been
\* created and stands last in the list, after the first.
C39_Witness ==
    /\ lastOp.op = "Create"
    /\ Parent(lastOp.id) # NoParent
    /\ Parent(lastOp.id) \in Range(timerIDs)
    /\ Len(childrenIDs[Parent(lastOp.id)]) = 2
    /\ childrenIDs[Parent(lastOp.id)][2] = lastOp.id
    /\ childrenIDs[Parent(lastOp.id)][1] < lastOp.id
    /\ Live = {Parent(lastOp.id)} \cup Range(childrenIDs[Parent(lastOp.id)])
    /\ nextId = lastOp.id + 1

====
